---------------------------- MODULE Spec2Model ----------------------------
(***************************************************************************)
(* The Rapyd connector (crates/router/src/connector/rapyd.rs): request     *)
(* signing, the per-flow request builders and response handlers, capture   *)
(* method validation and inbound webhook source verification.              *)
(*                                                                         *)
(* Text is modelled at byte level: a string is a sequence of byte values   *)
(* (ASCII codes), so that concatenation, decimal formatting, hex and       *)
(* base64 behave as they do in the program.  Header names and enum         *)
(* variants are TLA+ strings.                                              *)
(***************************************************************************)
EXTENDS Integers, Sequences, FiniteSets, TLC

(***************************************************************************)
(* Byte strings the program writes as literals.                            *)
(***************************************************************************)
S_post == <<112, 111, 115, 116>>                                \* "post"
S_get == <<103, 101, 116>>                                      \* "get"
S_delete == <<100, 101, 108, 101, 116, 101>>                    \* "delete"
S_v1_payments == <<47, 118, 49, 47, 112, 97, 121, 109, 101, 110, 116, 115>>  \* "/v1/payments"
S_capture == <<47, 99, 97, 112, 116, 117, 114, 101>>            \* "/capture"
S_v1_refunds == <<47, 118, 49, 47, 114, 101, 102, 117, 110, 100, 115>>       \* "/v1/refunds"
S_https == <<104, 116, 116, 112, 115, 58, 47, 47>>              \* "https://"
S_webhooks == <<47, 119, 101, 98, 104, 111, 111, 107, 115, 47>> \* "/webhooks/"
S_slash == <<47>>                                               \* "/"
S_application_json == <<97, 112, 112, 108, 105, 99, 97, 116, 105, 111, 110, 47, 106, 115, 111, 110>>  \* "application/json"

\* ConnectorCommon::id
id == <<114, 97, 112, 121, 100>>                                \* "rapyd"

\* ConnectorCommon::common_get_content_type
common_get_content_type == S_application_json

(***************************************************************************)
(* Results.  A CustomResult is Ok(value) or Err(report); of a report the   *)
(* model keeps the current context, which is what change_context sets.     *)
(***************************************************************************)
Ok(v) == [ok |-> TRUE, val |-> v]
Err(e) == [ok |-> FALSE, err |-> e]

\* ResultExt::change_context: an Ok passes through, an Err gets the new context.
change_context(r, ctx) == IF r.ok THEN r ELSE Err(ctx)

(***************************************************************************)
(* Text primitives.                                                        *)
(***************************************************************************)
RECURSIVE Concat(_)
\* format!("{a}{b}...") of byte strings: concatenation with no separators.
Concat(parts) ==
    IF parts = <<>> THEN <<>> ELSE Head(parts) \o Concat(Tail(parts))

Digit(d) == 48 + d

RECURSIVE DecimalDigits(_)
DecimalDigits(n) ==
    IF n < 10 THEN <<Digit(n)>> ELSE DecimalDigits(n \div 10) \o <<Digit(n % 10)>>

\* Display for i64 (format!("{timestamp}"), timestamp.to_string()): decimal,
\* a leading '-' for a negative value, no padding.
to_string(n) == IF n < 0 THEN <<45>> \o DecimalDigits(0 - n) ELSE DecimalDigits(n)

HexAlphabet == <<48, 49, 50, 51, 52, 53, 54, 55, 56, 57, 97, 98, 99, 100, 101, 102>>  \* "0123456789abcdef"

\* hex::encode: two lower-case hex digits per byte, high nibble first.
hex_encode(bytes) ==
    [i \in 1..(2 * Len(bytes)) |->
        LET b == bytes[(i + 1) \div 2]
        IN  IF i % 2 = 1 THEN HexAlphabet[(b \div 16) + 1] ELSE HexAlphabet[(b % 16) + 1]]

(***************************************************************************)
(* base64, URL-safe alphabet with '=' padding, decoding in canonical form  *)
(* only (consts::BASE64_ENGINE_URL_SAFE, the base64 crate's URL_SAFE).     *)
(***************************************************************************)
UrlSafeAlphabet == <<65, 66, 67, 68, 69, 70, 71, 72, 73, 74, 75, 76, 77, 78, 79, 80, 81, 82, 83, 84, 85, 86, 87, 88, 89, 90, 97, 98, 99, 100, 101, 102, 103, 104, 105, 106, 107, 108, 109, 110, 111, 112, 113, 114, 115, 116, 117, 118, 119, 120, 121, 122, 48, 49, 50, 51, 52, 53, 54, 55, 56, 57, 45, 95>>
PAD == 61                                                       \* '='

\* The engine writes padding and requires it when decoding.
BASE64_ENGINE_URL_SAFE_padding == TRUE

ByteAt(bytes, i) == IF i <= Len(bytes) THEN bytes[i] ELSE 0

\* The four symbols of the k-th group of three input bytes (missing bytes as 0).
EncodeGroup(bytes, k) ==
    LET b1 == ByteAt(bytes, 3 * k - 2)
        b2 == ByteAt(bytes, 3 * k - 1)
        b3 == ByteAt(bytes, 3 * k)
    IN  << UrlSafeAlphabet[(b1 \div 4) + 1],
           UrlSafeAlphabet[((b1 % 4) * 16 + (b2 \div 16)) + 1],
           UrlSafeAlphabet[((b2 % 16) * 4 + (b3 \div 64)) + 1],
           UrlSafeAlphabet[(b3 % 64) + 1] >>

\* Engine::encode
base64_encode(bytes) ==
    LET n == Len(bytes)
        full == n \div 3
        rem == n % 3
        symbols == (4 * full) + (IF rem = 0 THEN 0 ELSE rem + 1)
        padded == IF rem = 0 \/ ~BASE64_ENGINE_URL_SAFE_padding THEN symbols ELSE 4 * (full + 1)
    IN  [i \in 1..padded |->
            IF i > symbols THEN PAD ELSE EncodeGroup(bytes, (i + 3) \div 4)[((i - 1) % 4) + 1]]

\* The 6-bit value of a symbol, or -1 when it is not in the alphabet.
SymbolValue(c) ==
    IF c >= 65 /\ c <= 90 THEN c - 65
    ELSE IF c >= 97 /\ c <= 122 THEN c - 71
    ELSE IF c >= 48 /\ c <= 57 THEN c + 4
    ELSE IF c = 45 THEN 62
    ELSE IF c = 95 THEN 63
    ELSE 0 - 1

RECURSIVE TrailingPads(_)
TrailingPads(s) ==
    IF s # <<>> /\ s[Len(s)] = PAD THEN 1 + TrailingPads(SubSeq(s, 1, Len(s) - 1)) ELSE 0

\* Byte j of the decoding of the symbols `syms` (all in the alphabet).
DecodedByte(syms, j) ==
    LET g == (j - 1) \div 3
        r == (j - 1) % 3
        v1 == SymbolValue(syms[4 * g + 1])
        v2 == SymbolValue(syms[4 * g + 2])
        v3 == IF 4 * g + 3 <= Len(syms) THEN SymbolValue(syms[4 * g + 3]) ELSE 0
        v4 == IF 4 * g + 4 <= Len(syms) THEN SymbolValue(syms[4 * g + 4]) ELSE 0
    IN  IF r = 0 THEN v1 * 4 + (v2 \div 16)
        ELSE IF r = 1 THEN (v2 % 16) * 16 + (v3 \div 4)
        ELSE (v3 % 4) * 64 + v4

\* Engine::decode: Ok(bytes), or Err("DecodeError") for a byte outside the
\* alphabet, padding anywhere but at the end, a wrong amount of padding, an
\* impossible length, or non-zero bits after the last whole byte.
base64_decode(s) ==
    LET pads == TrailingPads(s)
        syms == SubSeq(s, 1, Len(s) - pads)
        m == Len(syms)
        rem == m % 4
        last == IF m = 0 THEN 0 ELSE SymbolValue(syms[m])
        wantPads == IF ~BASE64_ENGINE_URL_SAFE_padding \/ rem = 0 THEN 0 ELSE 4 - rem
        outLen == 3 * (m \div 4) + (IF rem = 0 THEN 0 ELSE rem - 1)
    IN  IF \E i \in 1..m : SymbolValue(syms[i]) < 0 THEN Err("DecodeError")
        ELSE IF rem = 1 THEN Err("DecodeError")
        ELSE IF pads # wantPads THEN Err("DecodeError")
        ELSE IF rem = 2 /\ last % 16 # 0 THEN Err("DecodeError")
        ELSE IF rem = 3 /\ last % 4 # 0 THEN Err("DecodeError")
        ELSE Ok([j \in 1..outLen |-> DecodedByte(syms, j)])

(***************************************************************************)
(* String::from_utf8: Ok iff the bytes are well-formed UTF-8.  Exact for   *)
(* one- and two-byte sequences; the inputs of the model hold no lead byte  *)
(* of a longer sequence other than 255, which is never valid.              *)
(***************************************************************************)
RECURSIVE Utf8Valid(_)
Utf8Valid(b) ==
    IF b = <<>> THEN TRUE
    ELSE IF b[1] < 128 THEN Utf8Valid(Tail(b))
    ELSE IF b[1] >= 194 /\ b[1] <= 223 /\ Len(b) >= 2 /\ b[2] >= 128 /\ b[2] <= 191
         THEN Utf8Valid(Tail(Tail(b)))
    ELSE FALSE

from_utf8(bytes) == IF Utf8Valid(bytes) THEN Ok(bytes) ELSE Err("FromUtf8Error")

(***************************************************************************)
(* HMAC-SHA256 (ring::hmac).  The digest itself is outside the program;    *)
(* it is modelled as a deterministic keyed function of key and message     *)
(* with a tag of the digest's length.                                      *)
(***************************************************************************)
TagLen == 32

\* A digest of bytes[lo..hi] that depends on every byte and on its position.
RECURSIVE Digest(_, _, _)
Digest(bytes, lo, hi) ==
    IF lo > hi THEN 7
    ELSE IF lo = hi THEN (bytes[lo] + 1) * ((lo % 61) + 1)
    ELSE LET mid == (lo + hi) \div 2
         IN  (Digest(bytes, lo, mid) * 31 + Digest(bytes, mid + 1, hi)) % 65521

hmac_sign(key, message) ==
    LET inner == Digest(key \o message, 1, Len(key) + Len(message))
        outer == Digest(key \o <<inner % 256, inner \div 256>>, 1, Len(key) + 2)
    IN  [i \in 1..TagLen |-> ((outer + i) * ((inner % 251) + i) + (inner \div 256)) % 256]

(***************************************************************************)
(* Option: None is the empty sequence, Some(x) the one-element sequence.   *)
(***************************************************************************)
None == <<>>
Some(x) == <<x>>

(***************************************************************************)
(* The state: the clock `now`, the invocation under way with its inputs    *)
(* (`call`), its result (`ret`) and the generate_signature invocations     *)
(* made (`signed`).  The connector itself holds none of it.                *)
(***************************************************************************)
VARIABLES now, call, ret, signed

(***************************************************************************)
(* Rapyd::generate_signature.  The string-to-sign is the concatenation of  *)
(* method, path, salt, decimal timestamp, access key, secret key and body; *)
(* the signature is base64(hex(HMAC-SHA256(secret key, string-to-sign))).  *)
(***************************************************************************)
\* A faulty variant, for sensitivity: the salt and the timestamp change places in the string-to-sign.
generate_signature_swapped(auth, http_method, url_path, body, timestamp, salt) ==
    LET to_sign == Concat(<<http_method, url_path, to_string(timestamp), salt,
                            auth.access_key, auth.secret_key, body>>)
    IN  Ok(base64_encode(hex_encode(hmac_sign(auth.secret_key, to_sign))))

\* A faulty variant, for sensitivity: the salt is left out of the string-to-sign.
string_to_sign_unsalted(auth, http_method, url_path, body, timestamp, salt) ==
    Concat(<<http_method, url_path, to_string(timestamp),
             auth.access_key, auth.secret_key, body>>)

\* format!("{http_method}{url_path}{salt}{timestamp}{}{}{body}",
\*         access_key.peek(), secret_key.peek())
string_to_sign(auth, http_method, url_path, body, timestamp, salt) ==
    Concat(<<http_method, url_path, salt, to_string(timestamp),
             auth.access_key, auth.secret_key, body>>)

\* A faulty variant, for sensitivity: the time signed is read from the clock at signing.
generate_signature_clocked(auth, http_method, url_path, body, timestamp, salt) ==
    LET to_sign == string_to_sign(auth, http_method, url_path, body, now, salt)
    IN  Ok(base64_encode(hex_encode(hmac_sign(auth.secret_key, to_sign))))

generate_signature(auth, http_method, url_path, body, timestamp, salt) ==
    LET secret_key == auth.secret_key
        to_sign == string_to_sign(auth, http_method, url_path, body, timestamp, salt)
        key == secret_key
        tag == hmac_sign(key, to_sign)
        hmac_sign_hex == hex_encode(tag)
        signature_value == base64_encode(hmac_sign_hex)
    IN  Ok(signature_value)

\* What one invocation of generate_signature was given (kept with the result
\* of the build_request that made it).
SignedCall(auth, http_method, url_path, body, timestamp, salt) ==
    [auth |-> auth, http_method |-> http_method, url_path |-> url_path,
     body |-> body, timestamp |-> timestamp, salt |-> salt,
     ret |-> generate_signature(auth, http_method, url_path, body, timestamp, salt)]

(***************************************************************************)
(* Collaborators of the flows that live outside rapyd.rs.                  *)
(***************************************************************************)
\* transformers::RapydAuthType::try_from(&ConnectorAuthType): the BodyKey
\* variant carries the two keys; every other variant is refused.
RapydAuthType_try_from(connector_auth_type) ==
    IF connector_auth_type.kind = "BodyKey"
    THEN Ok([access_key |-> connector_auth_type.api_key,
             secret_key |-> connector_auth_type.key1])
    ELSE Err("FailedToObtainAuthType")

\* ResponseId::get_connector_transaction_id
get_connector_transaction_id(response_id) ==
    IF response_id.kind = "ConnectorTransactionId"
    THEN Ok(response_id.id)
    ELSE Err("IncorrectValueProvided")

\* convert_amount with MinorUnitForConnector: the minor amount, unchanged.
convert_amount(minor_amount, currency) == Ok(minor_amount)

\* RequestContent::Json(Box::new(connector_req))
Json(value) == [content |-> "Json", value |-> value]

S_amount_open == <<123, 34, 97, 109, 111, 117, 110, 116, 34, 58>>             \* {"amount":
S_currency_key == <<44, 34, 99, 117, 114, 114, 101, 110, 99, 121, 34, 58, 34>> \* ,"currency":"
S_payment_key == <<44, 34, 112, 97, 121, 109, 101, 110, 116, 34, 58, 34>>      \* ,"payment":"
S_quote == <<34>>                                                             \* "
S_close == <<125>>                                                            \* }

\* RequestContent::get_inner_value: the JSON text of the value, the form in
\* which the transport sends it.
get_inner_value(content) ==
    LET v == content.value
    IN  Concat(<< S_amount_open, to_string(v.amount),
                  IF "currency" \in DOMAIN v
                      THEN Concat(<<S_currency_key, v.currency, S_quote>>) ELSE <<>>,
                  IF "payment" \in DOMAIN v
                      THEN Concat(<<S_payment_key, v.payment, S_quote>>) ELSE <<>>,
                  S_close >>)

\* RequestBuilder::attach_default_headers
DefaultHeaders == << <<"via", <<72, 121, 112, 101, 114, 83, 119, 105, 116, 99, 104>> >> >>  \* via: HyperSwitch

\* services::RequestBuilder: new, method, url, attach_default_headers,
\* headers, set_body, build.
RequestBuilder_new == [method |-> "Get", url |-> <<>>, headers |-> <<>>, body |-> None]
method(b, m) == [b EXCEPT !.method = m]
url(b, u) == [b EXCEPT !.url = u]
attach_default_headers(b) == [b EXCEPT !.headers = @ \o DefaultHeaders]
headers(b, hs) == [b EXCEPT !.headers = @ \o hs]
set_body(b, content) == [b EXCEPT !.body = Some(content)]
build(b) == b

\* The result of a build_request together with the generate_signature
\* invocations it made.
Built(res, signatures) == [res |-> res, signed |-> signatures]

\* A faulty variant, for sensitivity: the salt and the timestamp go out under each other's
\* name.
SigningHeaders_crossed(auth, salt, timestamp, signature) ==
    << <<"access_key", auth.access_key>>,
       <<"salt", to_string(timestamp)>>,
       <<"timestamp", salt>>,
       <<"signature", signature>> >>

\* The signing headers every build_request of this file puts together.
SigningHeaders(auth, salt, timestamp, signature) ==
    << <<"access_key", auth.access_key>>,
       <<"salt", salt>>,
       <<"timestamp", to_string(timestamp)>>,
       <<"signature", signature>> >>

\* headers::CONTENT_TYPE
CONTENT_TYPE == "Content-Type"

(***************************************************************************)
(* ConnectorCommon::base_url                                               *)
(***************************************************************************)
base_url(connectors) == connectors.rapyd.base_url

(***************************************************************************)
(* Authorize                                                               *)
(***************************************************************************)
get_headers_Authorize(req, connectors) ==
    Ok(<< <<CONTENT_TYPE, common_get_content_type>> >>)

get_url_Authorize(req, connectors) ==
    Ok(Concat(<<base_url(connectors), S_v1_payments>>))

\* RapydPaymentsRequest::try_from refuses the payment methods the connector
\* does not take.
get_request_body_Authorize(req, connectors) ==
    LET amount == convert_amount(req.request.minor_amount, req.request.currency)
    IN  IF ~amount.ok THEN amount
        ELSE IF req.request.payment_method \notin {"Card", "Wallet"}
             THEN Err("NotImplemented")
        ELSE Ok(Json([amount |-> amount.val, currency |-> req.request.currency]))

build_request_Authorize(req, connectors, timestamp, salt) ==
    LET auth == RapydAuthType_try_from(req.connector_auth_type)
        body == get_request_body_Authorize(req, connectors)
    IN  IF ~auth.ok THEN Built(auth, <<>>)
        ELSE IF ~body.ok THEN Built(body, <<>>)
        ELSE
    LET req_body == get_inner_value(body.val)
        signing == SignedCall(auth.val, S_post, S_v1_payments, req_body, timestamp, salt)
        signature == signing.ret
    IN  IF ~signature.ok THEN Built(signature, <<signing>>)
        ELSE
    LET hdrs == SigningHeaders(auth.val, salt, timestamp, signature.val)
        request == build(set_body(headers(headers(attach_default_headers(
                       url(method(RequestBuilder_new, "Post"),
                           get_url_Authorize(req, connectors).val)),
                       get_headers_Authorize(req, connectors).val),
                       hdrs),
                       get_request_body_Authorize(req, connectors).val))
    IN  Built(Ok(Some(request)), <<signing>>)

(***************************************************************************)
(* SetupMandate                                                            *)
(***************************************************************************)
\* A faulty variant, for sensitivity: the flow falls back to building nothing, without an error.
build_request_SetupMandate_silent(req, connectors) == Built(Ok(None), <<>>)

build_request_SetupMandate(req, connectors) == Built(Err("NotImplemented"), <<>>)

(***************************************************************************)
(* Void                                                                    *)
(***************************************************************************)
get_headers_Void(req, connectors) ==
    Ok(<< <<CONTENT_TYPE, common_get_content_type>> >>)

get_url_Void(req, connectors) ==
    Ok(Concat(<<base_url(connectors), S_v1_payments, S_slash,
                req.request.connector_transaction_id>>))

\* A faulty variant, for sensitivity: the signing headers are applied before the flow's own.
build_request_Void_signing_first(req, connectors, timestamp, salt) ==
    LET auth == RapydAuthType_try_from(req.connector_auth_type)
    IN  IF ~auth.ok THEN Built(auth, <<>>)
        ELSE
    LET url_path == Concat(<<S_v1_payments, S_slash, req.request.connector_transaction_id>>)
        signing == SignedCall(auth.val, S_delete, url_path, <<>>, timestamp, salt)
        signature == signing.ret
    IN  IF ~signature.ok THEN Built(signature, <<signing>>)
        ELSE
    LET hdrs == SigningHeaders(auth.val, salt, timestamp, signature.val)
        request == build(headers(headers(attach_default_headers(
                       url(method(RequestBuilder_new, "Delete"),
                           get_url_Void(req, connectors).val)),
                       hdrs),
                       get_headers_Void(req, connectors).val))
    IN  Built(Ok(Some(request)), <<signing>>)

\* A faulty variant, for sensitivity: credentials that do not decode are taken as empty keys.
build_request_Void_empty_keys(req, connectors, timestamp, salt) ==
    LET decoded == RapydAuthType_try_from(req.connector_auth_type)
        auth == IF decoded.ok THEN decoded
                ELSE Ok([access_key |-> <<>>, secret_key |-> <<>>])
        url_path == Concat(<<S_v1_payments, S_slash, req.request.connector_transaction_id>>)
        signing == SignedCall(auth.val, S_delete, url_path, <<>>, timestamp, salt)
        signature == signing.ret
        hdrs == SigningHeaders(auth.val, salt, timestamp, signature.val)
        request == build(headers(headers(attach_default_headers(
                       url(method(RequestBuilder_new, "Delete"),
                           get_url_Void(req, connectors).val)),
                       get_headers_Void(req, connectors).val),
                       hdrs))
    IN  Built(Ok(Some(request)), <<signing>>)

build_request_Void(req, connectors, timestamp, salt) ==
    LET auth == RapydAuthType_try_from(req.connector_auth_type)
    IN  IF ~auth.ok THEN Built(auth, <<>>)
        ELSE
    LET url_path == Concat(<<S_v1_payments, S_slash, req.request.connector_transaction_id>>)
        signing == SignedCall(auth.val, S_delete, url_path, <<>>, timestamp, salt)
        signature == signing.ret
    IN  IF ~signature.ok THEN Built(signature, <<signing>>)
        ELSE
    LET hdrs == SigningHeaders(auth.val, salt, timestamp, signature.val)
        request == build(headers(headers(attach_default_headers(
                       url(method(RequestBuilder_new, "Delete"),
                           get_url_Void(req, connectors).val)),
                       get_headers_Void(req, connectors).val),
                       hdrs))
    IN  Built(Ok(Some(request)), <<signing>>)

(***************************************************************************)
(* PSync                                                                   *)
(***************************************************************************)
get_headers_PSync(req, connectors) ==
    Ok(<< <<CONTENT_TYPE, common_get_content_type>> >>)

\* A faulty variant, for sensitivity: the failure keeps the context it came with.
resolve_connector_transaction_id_unchanged(response_id) ==
    get_connector_transaction_id(response_id)

\* response_id.get_connector_transaction_id()
\*     .change_context(errors::ConnectorError::MissingConnectorTransactionID)
resolve_connector_transaction_id(response_id) ==
    change_context(get_connector_transaction_id(response_id), "MissingConnectorTransactionID")

get_url_PSync(req, connectors) ==
    LET tid == resolve_connector_transaction_id(req.request.connector_transaction_id)
    IN  IF ~tid.ok THEN tid
        ELSE Ok(Concat(<<base_url(connectors), S_v1_payments, S_slash, tid.val>>))

build_request_PSync(req, connectors, timestamp, salt) ==
    LET auth == RapydAuthType_try_from(req.connector_auth_type)
        response_id == req.request.connector_transaction_id
        tid == resolve_connector_transaction_id(response_id)
    IN  IF ~auth.ok THEN Built(auth, <<>>)
        ELSE IF ~tid.ok THEN Built(tid, <<>>)
        ELSE
    LET url_path == Concat(<<S_v1_payments, S_slash, tid.val>>)
        signing == SignedCall(auth.val, S_get, url_path, <<>>, timestamp, salt)
        signature == signing.ret
    IN  IF ~signature.ok THEN Built(signature, <<signing>>)
        ELSE
    LET hdrs == SigningHeaders(auth.val, salt, timestamp, signature.val)
        full_url == get_url_PSync(req, connectors)
    IN  IF ~full_url.ok THEN Built(full_url, <<signing>>)
        ELSE
    LET request == build(headers(headers(attach_default_headers(
                       url(method(RequestBuilder_new, "Get"), full_url.val)),
                       get_headers_PSync(req, connectors).val),
                       hdrs))
    IN  Built(Ok(Some(request)), <<signing>>)

(***************************************************************************)
(* Capture                                                                 *)
(***************************************************************************)
get_headers_Capture(req, connectors) ==
    Ok(<< <<CONTENT_TYPE, common_get_content_type>> >>)

get_request_body_Capture(req, connectors) ==
    LET amount == convert_amount(req.request.minor_amount_to_capture, req.request.currency)
    IN  IF ~amount.ok THEN amount
        ELSE Ok(Json([amount |-> amount.val, currency |-> req.request.currency]))

\* A faulty variant, for sensitivity: the request goes to the payment itself, not to its capture.
get_url_Capture_of_payment(req, connectors) ==
    Ok(Concat(<<base_url(connectors), S_v1_payments, S_slash,
                req.request.connector_transaction_id>>))

get_url_Capture(req, connectors) ==
    Ok(Concat(<<base_url(connectors), S_v1_payments, S_slash,
                req.request.connector_transaction_id, S_capture>>))

\* A faulty variant, for sensitivity: the time signed and sent is read from the clock again
\* when the request is put together.
build_request_Capture_shared_clock(req, connectors, timestamp, salt) ==
    LET auth == RapydAuthType_try_from(req.connector_auth_type)
    IN  IF ~auth.ok THEN Built(auth, <<>>)
        ELSE
    LET url_path == Concat(<<S_v1_payments, S_slash,
                             req.request.connector_transaction_id, S_capture>>)
        body == get_request_body_Capture(req, connectors)
    IN  IF ~body.ok THEN Built(body, <<>>)
        ELSE
    LET req_body == get_inner_value(body.val)
        signing == SignedCall(auth.val, S_post, url_path, req_body, now, salt)
        hdrs == SigningHeaders(auth.val, salt, now, signing.ret.val)
        request == build(set_body(headers(headers(attach_default_headers(
                       url(method(RequestBuilder_new, "Post"),
                           get_url_Capture(req, connectors).val)),
                       get_headers_Capture(req, connectors).val),
                       hdrs),
                       body.val))
    IN  Built(Ok(Some(request)), <<signing>>)

build_request_Capture(req, connectors, timestamp, salt) ==
    LET auth == RapydAuthType_try_from(req.connector_auth_type)
    IN  IF ~auth.ok THEN Built(auth, <<>>)
        ELSE
    LET url_path == Concat(<<S_v1_payments, S_slash,
                             req.request.connector_transaction_id, S_capture>>)
        body == get_request_body_Capture(req, connectors)
    IN  IF ~body.ok THEN Built(body, <<>>)
        ELSE
    LET req_body == get_inner_value(body.val)
        signing == SignedCall(auth.val, S_post, url_path, req_body, timestamp, salt)
        signature == signing.ret
    IN  IF ~signature.ok THEN Built(signature, <<signing>>)
        ELSE
    LET hdrs == SigningHeaders(auth.val, salt, timestamp, signature.val)
        request == build(set_body(headers(headers(attach_default_headers(
                       url(method(RequestBuilder_new, "Post"),
                           get_url_Capture(req, connectors).val)),
                       get_headers_Capture(req, connectors).val),
                       hdrs),
                       get_request_body_Capture(req, connectors).val))
    IN  Built(Ok(Some(request)), <<signing>>)

(***************************************************************************)
(* Refund Execute                                                          *)
(***************************************************************************)
get_headers_Execute(req, connectors) ==
    Ok(<< <<CONTENT_TYPE, common_get_content_type>> >>)

get_url_Execute(req, connectors) ==
    Ok(Concat(<<base_url(connectors), S_v1_refunds>>))

get_request_body_Execute(req, connectors) ==
    LET amount == convert_amount(req.request.minor_refund_amount, req.request.currency)
    IN  IF ~amount.ok THEN amount
        ELSE Ok(Json([amount |-> amount.val, currency |-> req.request.currency,
                      payment |-> req.request.connector_transaction_id]))

\* The builder chain of this flow does not apply get_headers.
build_request_Execute(req, connectors, timestamp, salt) ==
    LET body == get_request_body_Execute(req, connectors)
    IN  IF ~body.ok THEN Built(body, <<>>)
        ELSE
    LET req_body == get_inner_value(body.val)
        auth == RapydAuthType_try_from(req.connector_auth_type)
    IN  IF ~auth.ok THEN Built(auth, <<>>)
        ELSE
    LET signing == SignedCall(auth.val, S_post, S_v1_refunds, req_body, timestamp, salt)
        signature == signing.ret
    IN  IF ~signature.ok THEN Built(signature, <<signing>>)
        ELSE
    LET hdrs == SigningHeaders(auth.val, salt, timestamp, signature.val)
        request == build(set_body(headers(attach_default_headers(
                       url(method(RequestBuilder_new, "Post"),
                           get_url_Execute(req, connectors).val)),
                       hdrs),
                       get_request_body_Execute(req, connectors).val))
    IN  Built(Ok(Some(request)), <<signing>>)

(***************************************************************************)
(* Refund Sync: the implementation defines handle_response only, so the    *)
(* framework's default request-building path runs.  That path is generic:  *)
(* it can use what the connector supplies through get_url, get_headers     *)
(* (neither is defined for this flow) and get_auth_header, and nothing     *)
(* else of this file.                                                      *)
(***************************************************************************)
\* ConnectorCommon::get_auth_header
get_auth_header(auth_type) == Ok(<<>>)

\* ConnectorIntegration::get_headers, the default: no flow-specific header.
get_headers_default(req, connectors) == Ok(<<>>)

\* ConnectorIntegration::get_url, the default: no path of the connector's.
get_url_default(req, connectors) == Ok(base_url(connectors))

\* ConnectorIntegration::build_request, the default: a GET without a body.
build_request_RSync(req, connectors) ==
    LET request == build(headers(headers(attach_default_headers(
                       url(method(RequestBuilder_new, "Get"),
                           get_url_default(req, connectors).val)),
                       get_headers_default(req, connectors).val),
                       get_auth_header(req.connector_auth_type).val))
    IN  Built(Ok(Some(request)), <<>>)

(***************************************************************************)
(* handle_response.  A response body is modelled by what the JSON parser   *)
(* makes of it: `schema` is the response type it parses into (or           *)
(* "malformed"), `convertible` whether the transformer accepts it.         *)
(***************************************************************************)
\* BytesExt::parse_struct
parse_struct(body, type_name) ==
    IF body.schema = type_name THEN Ok(body) ELSE Err("ParsingError")

\* RouterData::try_from(ResponseRouterData { response, data, http_code })
RouterData_try_from(response, data, http_code) ==
    IF response.convertible
    THEN Ok([data |-> data, response |-> response, http_code |-> http_code])
    ELSE Err("ResponseTransformFailed")

\* The shape shared by the handlers: parse into `type_name`, a parse failure
\* reported as `parse_error`; then transform, a failure reported as
\* ResponseHandlingFailed.
HandleWith(data, res, type_name, parse_error) ==
    LET response == change_context(parse_struct(res.response, type_name), parse_error)
    IN  IF ~response.ok THEN response
        ELSE change_context(RouterData_try_from(response.val, data, res.status_code),
                            "ResponseHandlingFailed")

handle_response_Authorize(data, res) ==
    HandleWith(data, res, "RapydPaymentsResponse", "ResponseDeserializationFailed")

handle_response_Void(data, res) ==
    HandleWith(data, res, "RapydPaymentsResponse", "ResponseDeserializationFailed")

handle_response_PSync(data, res) ==
    HandleWith(data, res, "RapydPaymentsResponse", "ResponseDeserializationFailed")

handle_response_Capture(data, res) ==
    HandleWith(data, res, "RapydPaymentsResponse", "ResponseDeserializationFailed")

handle_response_Execute(data, res) ==
    HandleWith(data, res, "RefundResponse", "RequestEncodingFailed")

handle_response_RSync(data, res) ==
    HandleWith(data, res, "RefundResponse", "ResponseDeserializationFailed")

handle_response(flow, data, res) ==
    CASE flow = "Authorize" -> handle_response_Authorize(data, res)
      [] flow = "Void" -> handle_response_Void(data, res)
      [] flow = "PSync" -> handle_response_PSync(data, res)
      [] flow = "Capture" -> handle_response_Capture(data, res)
      [] flow = "Execute" -> handle_response_Execute(data, res)
      [] flow = "RSync" -> handle_response_RSync(data, res)

(***************************************************************************)
(* ConnectorValidation::validate_capture_method                            *)
(***************************************************************************)
CaptureMethod == {"Automatic", "Manual", "ManualMultiple", "Scheduled"}

\* CaptureMethod::default
CaptureMethod_default == "Automatic"

\* Option::unwrap_or_default
unwrap_or_default(opt) == IF opt = None THEN CaptureMethod_default ELSE opt[1]

\* connector_utils::construct_not_supported_error_report
construct_not_supported_error_report(capture_method, connector_name) ==
    [error |-> "NotSupported", message |-> capture_method, connector |-> connector_name]

\* A faulty variant, for sensitivity: multiple manual captures pass validation.
validate_capture_method_lenient(capture_method_opt, pmt) ==
    LET capture_method == unwrap_or_default(capture_method_opt)
    IN  IF capture_method \in {"Automatic", "Manual", "ManualMultiple"}
        THEN Ok(<<>>)
        ELSE Err(construct_not_supported_error_report(capture_method, id))

validate_capture_method(capture_method_opt, pmt) ==
    LET capture_method == unwrap_or_default(capture_method_opt)
    IN  IF capture_method \in {"Automatic", "Manual"}
        THEN Ok(<<>>)
        ELSE Err(construct_not_supported_error_report(capture_method, id))

(***************************************************************************)
(* IncomingWebhook: source verification.  `request.headers` is a function  *)
(* from the names of the headers present to their values.  A merchant      *)
(* secret is modelled by what the program can make of its bytes: `form`    *)
(* is "RapydAuthType" (JSON of the two keys), "text" (UTF-8 that is not    *)
(* that JSON) or "binary" (not UTF-8).                                     *)
(***************************************************************************)
\* connector_utils::get_header_key_value
get_header_key_value(key, hdrs) ==
    IF key \in DOMAIN hdrs THEN Ok(hdrs[key]) ELSE Err("WebhookSourceVerificationFailed")

\* String::from_utf8(connector_webhook_secrets.secret.to_vec())
secret_from_utf8(secret) ==
    IF secret.form = "binary" THEN Err("FromUtf8Error") ELSE Ok(secret)

\* StringExt::parse_struct("RapydAuthType")
parse_RapydAuthType(text) ==
    IF text.form = "RapydAuthType"
    THEN Ok([access_key |-> text.access_key, secret_key |-> text.secret_key])
    ELSE Err("ParsingError")

\* A faulty variant, for sensitivity: the header is taken as the signature bytes, without decoding.
get_webhook_source_verification_signature_raw(request, connector_webhook_secrets) ==
    get_header_key_value("signature", request.headers)

\* A faulty variant, for sensitivity: a header that does not decode counts as an empty signature.
get_webhook_source_verification_signature_lenient(request, connector_webhook_secrets) ==
    LET base64_signature == get_header_key_value("signature", request.headers)
        decoded == base64_decode(base64_signature.val)
    IN  IF ~base64_signature.ok THEN base64_signature
        ELSE IF decoded.ok THEN decoded ELSE Ok(<<>>)

get_webhook_source_verification_signature(request, connector_webhook_secrets) ==
    LET base64_signature == get_header_key_value("signature", request.headers)
    IN  IF ~base64_signature.ok THEN base64_signature
        ELSE change_context(base64_decode(base64_signature.val),
                            "WebhookSourceVerificationFailed")

get_webhook_source_verification_message(request, merchant_id, connector_webhook_secrets) ==
    LET host == get_header_key_value("host", request.headers)
    IN  IF ~host.ok THEN host
        ELSE
    LET connector == id
        url_path == Concat(<<S_https, host.val, S_webhooks, merchant_id, S_slash, connector>>)
        salt == get_header_key_value("salt", request.headers)
    IN  IF ~salt.ok THEN salt
        ELSE
    LET timestamp == get_header_key_value("timestamp", request.headers)
    IN  IF ~timestamp.ok THEN timestamp
        ELSE
    LET stringify_auth == change_context(secret_from_utf8(connector_webhook_secrets.secret),
                                         "WebhookSourceVerificationFailed")
    IN  IF ~stringify_auth.ok THEN stringify_auth
        ELSE
    LET auth == change_context(parse_RapydAuthType(stringify_auth.val),
                               "WebhookSourceVerificationFailed")
    IN  IF ~auth.ok THEN auth
        ELSE
    LET access_key == auth.val.access_key
        secret_key == auth.val.secret_key
        body_string == change_context(from_utf8(request.body),
                                      "WebhookSourceVerificationFailed")
    IN  IF ~body_string.ok THEN body_string
        ELSE Ok(Concat(<<url_path, salt.val, timestamp.val, access_key, secret_key,
                         body_string.val>>))

\* `resolved` is what get_webhook_source_verification_merchant_secret, the
\* external secret resolution, returned.
verify_webhook_source(request, merchant_id, resolved) ==
    LET connector_webhook_secrets == change_context(resolved, "WebhookSourceVerificationFailed")
    IN  IF ~connector_webhook_secrets.ok THEN connector_webhook_secrets
        ELSE
    LET signature == change_context(
            get_webhook_source_verification_signature(request, connector_webhook_secrets.val),
            "WebhookSourceVerificationFailed")
    IN  IF ~signature.ok THEN signature
        ELSE
    LET message == change_context(
            get_webhook_source_verification_message(request, merchant_id,
                                                    connector_webhook_secrets.val),
            "WebhookSourceVerificationFailed")
    IN  IF ~message.ok THEN message
        ELSE
    LET stringify_auth == change_context(secret_from_utf8(connector_webhook_secrets.val.secret),
                                         "WebhookSourceVerificationFailed")
    IN  IF ~stringify_auth.ok THEN stringify_auth
        ELSE
    LET auth == change_context(parse_RapydAuthType(stringify_auth.val),
                               "WebhookSourceVerificationFailed")
    IN  IF ~auth.ok THEN auth
        ELSE
    LET secret_key == auth.val.secret_key
        key == secret_key
        tag == hmac_sign(key, message.val)
        hmac_sign_hex == hex_encode(tag)
    IN  Ok(hmac_sign_hex = signature.val)

(***************************************************************************)
(* The inputs the model draws from.                                        *)
(***************************************************************************)
MaxAmount == 2       \* amounts are 0, 500, ..., 500 * MaxAmount minor units
MaxTicks == 1        \* the clock advances at most this many seconds
ClockStart == 1699999999
SaltLen == 12

AK1 == <<97, 107, 95, 49>>                                      \* "ak_1"
SK1 == <<115, 107, 95, 49>>                                     \* "sk_1"
AK2 == <<97, 107, 95, 50>>                                      \* "ak_2"
SK2 == <<115, 107, 95, 50>>                                     \* "sk_2"

BodyKeys == { [kind |-> "BodyKey", api_key |-> AK1, key1 |-> SK1],
              [kind |-> "BodyKey", api_key |-> AK2, key1 |-> SK2] }
ConnectorAuthTypes == BodyKeys \cup { [kind |-> "HeaderKey", api_key |-> AK1] }

ConnectorsSettings ==
    { [rapyd |-> [base_url |-> u]] :
        u \in { <<104, 116, 116, 112, 115, 58, 47, 47, 114, 46, 105, 111>>,     \* "https://r.io"
                <<104, 116, 116, 112, 115, 58, 47, 47, 97, 112, 105, 46, 114, 97, 112, 121, 100, 46, 110, 101, 116>> } }  \* "https://api.rapyd.net"

\* Alphanumeric.sample_string(rng, len): the strings the model lets the
\* random source return, all alphanumeric and of length len.
sample_string(len) ==
    { [i \in 1..len |-> 97],                                    \* "aaaaaaaaaaaa"
      [i \in 1..len |-> IF i % 2 = 1 THEN 90 ELSE 57] }         \* "Z9Z9Z9Z9Z9Z9"

TransactionIds == { <<112, 97, 121, 95, 49>>, <<112, 97, 121, 95, 50>> }   \* "pay_1", "pay_2"
ResponseIds == { [kind |-> "ConnectorTransactionId", id |-> t] : t \in TransactionIds }
               \cup { [kind |-> "EncodedData", id |-> <<120>>], [kind |-> "NoResponseId"] }
Amounts == { 500 * a : a \in 0..MaxAmount }
USD == <<85, 83, 68>>                                           \* "USD"
PaymentMethods == {"Card", "Wallet", "Crypto"}

ImplementedFlows == {"Authorize", "Void", "PSync", "Capture", "Execute", "RSync"}

ResponseBodies ==
    { [schema |-> t, convertible |-> c] :
        t \in {"RapydPaymentsResponse", "RefundResponse"}, c \in BOOLEAN }
    \cup { [schema |-> "malformed", convertible |-> FALSE] }
Responses == { [status_code |-> c, response |-> b] : c \in {200, 400}, b \in ResponseBodies }

(***************************************************************************)
(* ConnectorCommon::build_error_response.  An error body is modelled by    *)
(* what the JSON parser makes of it: the RapydPaymentsResponse it parses   *)
(* into, with its `status` object, or "malformed".                         *)
(***************************************************************************)
\* Option<String>::unwrap_or_default
unwrap_or_default_String(opt) == IF opt = None THEN "" ELSE opt[1]

\* utils::handle_json_response_deserialization_failure(res, "rapyd"): the
\* outcome is the generic handler's, kept as what it was handed.
handle_json_response_deserialization_failure(res, connector) ==
    [delegated |-> "handle_json_response_deserialization_failure",
     res |-> res, connector |-> connector]

\* A faulty variant, for sensitivity: the provider's status text is taken for the code.
build_error_response_confused(res) ==
    LET response == parse_struct(res.response, "RapydPaymentsResponse")
    IN  IF response.ok
        THEN Ok([status_code |-> res.status_code,
                 code |-> unwrap_or_default_String(response.val.status.status),
                 message |-> response.val.status.error_code,
                 reason |-> response.val.status.message,
                 attempt_status |-> None,
                 connector_transaction_id |-> None])
        ELSE handle_json_response_deserialization_failure(res, id)

build_error_response(res) ==
    LET response == parse_struct(res.response, "RapydPaymentsResponse")
    IN  IF response.ok
        THEN LET response_data == response.val
             IN  Ok([status_code |-> res.status_code,
                     code |-> response_data.status.error_code,
                     message |-> unwrap_or_default_String(response_data.status.status),
                     reason |-> response_data.status.message,
                     attempt_status |-> None,
                     connector_transaction_id |-> None])
        ELSE handle_json_response_deserialization_failure(res, id)

\* The error bodies the provider is taken to send, and others.
ErrorStatuses ==
    [error_code : {"", "ERROR_PAYMENT_DECLINED"},
     status : {None, Some("ERROR")},
     message : {None, Some("The payment was declined.")}]
ErrorBodies ==
    { [schema |-> "RapydPaymentsResponse", status |-> st] : st \in ErrorStatuses }
    \cup { [schema |-> "RefundResponse"], [schema |-> "malformed"] }
ErrorResponses == { [status_code |-> c, response |-> b] : c \in {400, 500}, b \in ErrorBodies }

(***************************************************************************)
(* IncomingWebhook: what is read from the webhook body.  A body is         *)
(* modelled by what the JSON parser makes of it: the RapydIncomingWebhook  *)
(* it parses into (`webhook_type` and `data`), or "malformed".             *)
(***************************************************************************)
RapydWebhookObjectEventType ==
    {"PaymentCompleted", "PaymentCaptured", "PaymentFailed", "RefundCompleted",
     "PaymentRefundRejected", "PaymentRefundFailed", "PaymentDisputeCreated",
     "PaymentDisputeUpdated", "Unknown"}

RapydWebhookDisputeStatus == {"Active", "Review", "Lose", "Win", "Unknown"}

\* api::IncomingWebhookEvent::from(RapydWebhookDisputeStatus)
IncomingWebhookEvent_from(status) ==
    CASE status = "Active" -> "DisputeOpened"
      [] status = "Review" -> "DisputeChallenged"
      [] status = "Lose" -> "DisputeLost"
      [] status = "Win" -> "DisputeWon"
      [] OTHER -> "EventNotSupported"

\* RapydWebhookDisputeStatus's Display
DisputeStatus_to_string(status) == status

\* request.body.parse_struct("RapydIncomingWebhook")
\*     .change_context(errors::ConnectorError::WebhookEventTypeNotFound)
parse_RapydIncomingWebhook(request) ==
    change_context(parse_struct(request.body, "RapydIncomingWebhook"),
                   "WebhookEventTypeNotFound")

\* A faulty variant, for sensitivity: a dispute is referred to by its own token.
get_webhook_object_reference_id_by_token(request) ==
    LET webhook == parse_RapydIncomingWebhook(request)
    IN  IF ~webhook.ok THEN webhook
        ELSE LET data == webhook.val.data
             IN  Ok(CASE data.kind = "Payment" ->
                           [kind |-> "PaymentId", id_type |-> "ConnectorTransactionId", id |-> data.id]
                      [] data.kind = "Refund" ->
                           [kind |-> "RefundId", id_type |-> "ConnectorRefundId", id |-> data.id]
                      [] data.kind = "Dispute" ->
                           [kind |-> "PaymentId", id_type |-> "ConnectorTransactionId",
                            id |-> data.token])

get_webhook_object_reference_id(request) ==
    LET webhook == parse_RapydIncomingWebhook(request)
    IN  IF ~webhook.ok THEN webhook
        ELSE LET data == webhook.val.data
             IN  Ok(CASE data.kind = "Payment" ->
                           [kind |-> "PaymentId", id_type |-> "ConnectorTransactionId", id |-> data.id]
                      [] data.kind = "Refund" ->
                           [kind |-> "RefundId", id_type |-> "ConnectorRefundId", id |-> data.id]
                      [] data.kind = "Dispute" ->
                           [kind |-> "PaymentId", id_type |-> "ConnectorTransactionId",
                            id |-> data.original_transaction_id])

\* A faulty variant, for sensitivity: every dispute event opens a dispute.
get_webhook_event_type_generic(request) ==
    LET webhook == parse_RapydIncomingWebhook(request)
    IN  IF ~webhook.ok THEN webhook
        ELSE LET webhook_type == webhook.val.webhook_type
             IN  Ok(CASE webhook_type \in {"PaymentCompleted", "PaymentCaptured"} -> "PaymentIntentSuccess"
                      [] webhook_type = "PaymentFailed" -> "PaymentIntentFailure"
                      [] webhook_type \in {"PaymentRefundFailed", "PaymentRefundRejected"} -> "RefundFailure"
                      [] webhook_type = "RefundCompleted" -> "RefundSuccess"
                      [] webhook_type \in {"PaymentDisputeCreated", "PaymentDisputeUpdated"} -> "DisputeOpened"
                      [] webhook_type = "Unknown" -> "EventNotSupported")

get_webhook_event_type(request) ==
    LET webhook == parse_RapydIncomingWebhook(request)
    IN  IF ~webhook.ok THEN webhook
        ELSE LET webhook_type == webhook.val.webhook_type
                 data == webhook.val.data
             IN  Ok(CASE webhook_type \in {"PaymentCompleted", "PaymentCaptured"} -> "PaymentIntentSuccess"
                      [] webhook_type = "PaymentFailed" -> "PaymentIntentFailure"
                      [] webhook_type \in {"PaymentRefundFailed", "PaymentRefundRejected"} -> "RefundFailure"
                      [] webhook_type = "RefundCompleted" -> "RefundSuccess"
                      [] webhook_type = "PaymentDisputeCreated" -> "DisputeOpened"
                      [] webhook_type = "Unknown" -> "EventNotSupported"
                      [] webhook_type = "PaymentDisputeUpdated" ->
                           IF data.kind = "Dispute" THEN IncomingWebhookEvent_from(data.status)
                           ELSE "EventNotSupported")

\* A faulty variant, for sensitivity: a payload of another kind is reported like a body that
\* does not parse.
get_dispute_details_undistinguished(request) ==
    LET webhook == parse_RapydIncomingWebhook(request)
    IN  IF ~webhook.ok THEN webhook
        ELSE IF webhook.val.data.kind # "Dispute" THEN Err("WebhookEventTypeNotFound")
        ELSE LET webhook_dispute_data == webhook.val.data
             IN  Ok([amount |-> to_string(webhook_dispute_data.amount),
                     currency |-> webhook_dispute_data.currency,
                     dispute_stage |-> "Dispute",
                     connector_dispute_id |-> webhook_dispute_data.token,
                     connector_reason |-> Some(webhook_dispute_data.dispute_reason_description),
                     connector_reason_code |-> None,
                     challenge_required_by |-> webhook_dispute_data.due_date,
                     connector_status |-> DisputeStatus_to_string(webhook_dispute_data.status),
                     created_at |-> webhook_dispute_data.created_at,
                     updated_at |-> webhook_dispute_data.updated_at])

get_dispute_details(request) ==
    LET webhook == parse_RapydIncomingWebhook(request)
    IN  IF ~webhook.ok THEN webhook
        ELSE IF webhook.val.data.kind # "Dispute" THEN Err("WebhookBodyDecodingFailed")
        ELSE LET webhook_dispute_data == webhook.val.data
             IN  Ok([amount |-> to_string(webhook_dispute_data.amount),
                     currency |-> webhook_dispute_data.currency,
                     dispute_stage |-> "Dispute",
                     connector_dispute_id |-> webhook_dispute_data.token,
                     connector_reason |-> Some(webhook_dispute_data.dispute_reason_description),
                     connector_reason_code |-> None,
                     challenge_required_by |-> webhook_dispute_data.due_date,
                     connector_status |-> DisputeStatus_to_string(webhook_dispute_data.status),
                     created_at |-> webhook_dispute_data.created_at,
                     updated_at |-> webhook_dispute_data.updated_at])

\* The payloads the provider is taken to send.
WebhookData ==
    { [kind |-> "Payment", id |-> i] : i \in {"payment_1", "payment_2"} }
    \cup { [kind |-> "Refund", id |-> i] : i \in {"refund_1", "refund_2"} }
    \cup { [kind |-> "Dispute", status |-> st, token |-> "dispute_1",
            original_transaction_id |-> i, amount |-> a, currency |-> USD,
            dispute_reason_description |-> "Goods not received",
            due_date |-> None, created_at |-> None, updated_at |-> None] :
             st \in RapydWebhookDisputeStatus, i \in {"payment_1", "payment_2"},
             a \in {0, 1000} }

IncomingWebhookBodies ==
    { [schema |-> "RapydIncomingWebhook", webhook_type |-> t, data |-> d] :
        t \in RapydWebhookObjectEventType, d \in WebhookData }
    \cup { [schema |-> "malformed"] }

IncomingWebhookRequestDetails == { [body |-> b] : b \in IncomingWebhookBodies }

(***************************************************************************)
(* State: the clock, the invocation under way with its inputs, its result  *)
(* and the generate_signature invocations it made.                         *)
(***************************************************************************)
vars == <<now, call, ret, signed>>

Idle == [op |-> "idle"]
NoResult == [pending |-> TRUE]

Init ==
    /\ now = ClockStart
    /\ call = Idle
    /\ ret = NoResult
    /\ signed = <<>>

\* date_time::now_unix_timestamp
now_unix_timestamp == now

Tick ==
    /\ call = Idle
    /\ now < ClockStart + MaxTicks
    /\ now' = now + 1
    /\ UNCHANGED <<call, ret, signed>>

\* The caller takes the result; the connector keeps nothing of the invocation.
Return ==
    /\ call # Idle
    /\ call' = Idle
    /\ ret' = NoResult
    /\ signed' = <<>>
    /\ UNCHANGED now

RouterData(auth, request) == [connector_auth_type |-> auth, request |-> request]

BuildRequestAuthorize ==
    /\ call = Idle
    /\ \E auth \in ConnectorAuthTypes, connectors \in ConnectorsSettings,
          amount \in Amounts, pm \in PaymentMethods, salt \in sample_string(SaltLen) :
        LET req == RouterData(auth, [minor_amount |-> amount, currency |-> USD,
                                     payment_method |-> pm])
            timestamp == now_unix_timestamp
            built == build_request_Authorize(req, connectors, timestamp, salt)
        IN  /\ call' = [op |-> "build_request", flow |-> "Authorize", req |-> req,
                        connectors |-> connectors, timestamp |-> timestamp, salt |-> salt]
            /\ ret' = built.res
            /\ signed' = built.signed
    /\ UNCHANGED now

BuildRequestVoid ==
    /\ call = Idle
    /\ \E auth \in ConnectorAuthTypes, connectors \in ConnectorsSettings,
          tid \in TransactionIds, salt \in sample_string(SaltLen) :
        LET req == RouterData(auth, [connector_transaction_id |-> tid])
            timestamp == now_unix_timestamp
            built == build_request_Void(req, connectors, timestamp, salt)
        IN  /\ call' = [op |-> "build_request", flow |-> "Void", req |-> req,
                        connectors |-> connectors, timestamp |-> timestamp, salt |-> salt]
            /\ ret' = built.res
            /\ signed' = built.signed
    /\ UNCHANGED now

BuildRequestPSync ==
    /\ call = Idle
    /\ \E auth \in ConnectorAuthTypes, connectors \in ConnectorsSettings,
          rid \in ResponseIds, salt \in sample_string(SaltLen) :
        LET req == RouterData(auth, [connector_transaction_id |-> rid])
            timestamp == now_unix_timestamp
            built == build_request_PSync(req, connectors, timestamp, salt)
        IN  /\ call' = [op |-> "build_request", flow |-> "PSync", req |-> req,
                        connectors |-> connectors, timestamp |-> timestamp, salt |-> salt]
            /\ ret' = built.res
            /\ signed' = built.signed
    /\ UNCHANGED now

BuildRequestCapture ==
    /\ call = Idle
    /\ \E auth \in ConnectorAuthTypes, connectors \in ConnectorsSettings,
          tid \in TransactionIds, amount \in Amounts, salt \in sample_string(SaltLen) :
        LET req == RouterData(auth, [connector_transaction_id |-> tid,
                                     minor_amount_to_capture |-> amount, currency |-> USD])
            timestamp == now_unix_timestamp
            built == build_request_Capture(req, connectors, timestamp, salt)
        IN  /\ call' = [op |-> "build_request", flow |-> "Capture", req |-> req,
                        connectors |-> connectors, timestamp |-> timestamp, salt |-> salt]
            /\ ret' = built.res
            /\ signed' = built.signed
    /\ UNCHANGED now

BuildRequestExecute ==
    /\ call = Idle
    /\ \E auth \in ConnectorAuthTypes, connectors \in ConnectorsSettings,
          tid \in TransactionIds, amount \in Amounts, salt \in sample_string(SaltLen) :
        LET req == RouterData(auth, [connector_transaction_id |-> tid,
                                     minor_refund_amount |-> amount, currency |-> USD])
            timestamp == now_unix_timestamp
            built == build_request_Execute(req, connectors, timestamp, salt)
        IN  /\ call' = [op |-> "build_request", flow |-> "Execute", req |-> req,
                        connectors |-> connectors, timestamp |-> timestamp, salt |-> salt]
            /\ ret' = built.res
            /\ signed' = built.signed
    /\ UNCHANGED now

BuildRequestRSync ==
    /\ call = Idle
    /\ \E auth \in ConnectorAuthTypes, connectors \in ConnectorsSettings,
          tid \in TransactionIds :
        LET req == RouterData(auth, [connector_transaction_id |-> tid])
            built == build_request_RSync(req, connectors)
        IN  /\ call' = [op |-> "build_request", flow |-> "RSync", req |-> req,
                        connectors |-> connectors]
            /\ ret' = built.res
            /\ signed' = built.signed
    /\ UNCHANGED now

BuildRequestSetupMandate ==
    /\ call = Idle
    /\ \E auth \in ConnectorAuthTypes, connectors \in ConnectorsSettings,
          amount \in Amounts :
        LET req == RouterData(auth, [minor_amount |-> amount, currency |-> USD])
            built == build_request_SetupMandate(req, connectors)
        IN  /\ call' = [op |-> "build_request", flow |-> "SetupMandate", req |-> req,
                        connectors |-> connectors]
            /\ ret' = built.res
            /\ signed' = built.signed
    /\ UNCHANGED now

HandleResponse ==
    /\ call = Idle
    /\ \E flow \in ImplementedFlows, auth \in BodyKeys, res \in Responses :
        LET data == RouterData(auth, [flow |-> flow])
        IN  /\ call' = [op |-> "handle_response", flow |-> flow, data |-> data, res |-> res]
            /\ ret' = handle_response(flow, data, res)
    /\ signed' = <<>>
    /\ UNCHANGED now

ValidateCaptureMethod ==
    /\ call = Idle
    /\ \E capture_method \in {None} \cup {Some(m) : m \in CaptureMethod},
          pmt \in {None} \cup {Some(t) : t \in {"Credit", "ApplePay"}} :
        /\ call' = [op |-> "validate_capture_method", capture_method |-> capture_method,
                    pmt |-> pmt]
        /\ ret' = validate_capture_method(capture_method, pmt)
    /\ signed' = <<>>
    /\ UNCHANGED now

(***************************************************************************)
(* Inbound webhooks.  The provider signs what it sends with the merchant's *)
(* keys; what arrives is that webhook, intact or changed on the way, and   *)
(* the merchant secret as the secret store resolved it.                    *)
(***************************************************************************)
Hosts == { <<97, 46, 105, 111>>, <<104, 115, 46, 105, 111, 58, 56, 48>> }     \* "a.io", "hs.io:80"
MerchantIds == { <<109, 49>>, <<109, 95, 50>> }                              \* "m1", "m_2"
WebhookBodies == { <<123, 34, 97, 34, 58, 49, 125>>,                         \* {"a":1}
                   <<34, 195, 169, 34>> }                                    \* "e-acute", two-byte UTF-8
NotUtf8Body == <<123, 255, 125>>
RapydAuthTypes == { [access_key |-> AK1, secret_key |-> SK1],
                    [access_key |-> AK2, secret_key |-> SK2] }

\* The secret store's entry for a pair of keys.
SecretOf(auth) ==
    [secret |-> [form |-> "RapydAuthType", access_key |-> auth.access_key,
                 secret_key |-> auth.secret_key]]

\* The webhook URL the provider signs.
WebhookUrl(host, merchant_id) == Concat(<<S_https, host, S_webhooks, merchant_id, S_slash, id>>)

\* The provider's signature of a webhook.
WebhookSignature(w) ==
    generate_signature(w.auth, <<>>, WebhookUrl(w.host, w.merchant_id), w.body,
                       w.timestamp, w.salt).val

\* The webhook as the provider sends it.
Sent(w) ==
    [headers |-> [h \in {"signature", "salt", "timestamp", "host"} |->
                    CASE h = "signature" -> WebhookSignature(w)
                      [] h = "salt" -> w.salt
                      [] h = "timestamp" -> to_string(w.timestamp)
                      [] h = "host" -> w.host],
     body |-> w.body]

Without(hdrs, h) == [k \in (DOMAIN hdrs) \ {h} |-> hdrs[k]]

\* The symbol after c in the alphabet ('A' after the last and after a
\* byte that is no symbol).
NextSymbol(c) == UrlSafeAlphabet[((SymbolValue(c) + 1) % 64) + 1]

\* The bytes a changed signature byte may become: a neighbouring symbol, the
\* padding byte, a byte outside the alphabet.
TamperBytes(c) == {NextSymbol(c), PAD, 33} \ {c}

Faults == { "no_signature", "no_salt", "no_timestamp", "no_host",
            "signature_not_base64", "body_not_utf8", "body_changed",
            "secret_unresolved", "secret_not_utf8", "secret_not_credentials",
            "secret_of_other_keys" }

\* The request that arrives under a fault.
Arrived(w, fault) ==
    LET sent == Sent(w)
    IN  CASE fault = "no_signature" -> [sent EXCEPT !.headers = Without(@, "signature")]
          [] fault = "no_salt" -> [sent EXCEPT !.headers = Without(@, "salt")]
          [] fault = "no_timestamp" -> [sent EXCEPT !.headers = Without(@, "timestamp")]
          [] fault = "no_host" -> [sent EXCEPT !.headers = Without(@, "host")]
          [] fault = "signature_not_base64" -> [sent EXCEPT !.headers["signature"] = <<33, 33, 33, 33>>]
          [] fault = "body_not_utf8" -> [sent EXCEPT !.body = NotUtf8Body]
          [] fault = "body_changed" -> [sent EXCEPT !.body = @ \o <<32>>]
          [] OTHER -> sent

\* The merchant secret as resolved under a fault.
Resolved(w, fault) ==
    CASE fault = "secret_unresolved" -> Err("WebhookVerificationSecretNotFound")
      [] fault = "secret_not_utf8" -> Ok([secret |-> [form |-> "binary"]])
      [] fault = "secret_not_credentials" -> Ok([secret |-> [form |-> "text"]])
      [] fault = "secret_of_other_keys" ->
            Ok(SecretOf(CHOOSE a \in RapydAuthTypes : a # w.auth))
      [] OTHER -> Ok(SecretOf(w.auth))

\* The webhooks the provider may send at the present time.
Webhooks ==
    { [host |-> h, merchant_id |-> m, salt |-> s, timestamp |-> now, auth |-> a, body |-> b] :
        h \in Hosts, m \in MerchantIds, s \in sample_string(SaltLen),
        a \in RapydAuthTypes, b \in WebhookBodies }

\* Those of them whose signature the model lets be changed on the way: one
\* host, merchant and salt, every pair of keys and every body.
TamperedWebhooks ==
    { w \in Webhooks :
        /\ w.host = CHOOSE h \in Hosts : TRUE
        /\ w.merchant_id = CHOOSE m \in MerchantIds : TRUE
        /\ w.salt = CHOOSE x \in sample_string(SaltLen) : TRUE }

\* A webhook arrives as sent, or under one fault.
VerifyWebhookSource ==
    /\ call = Idle
    /\ \E w \in Webhooks, fault \in Faults \cup {"none"} :
        LET request == Arrived(w, fault)
            resolved == Resolved(w, fault)
        IN  /\ call' = [op |-> "verify_webhook_source", request |-> request,
                        merchant_id |-> w.merchant_id, resolved |-> resolved,
                        webhook |-> w, fault |-> fault]
            /\ ret' = verify_webhook_source(request, w.merchant_id, resolved)
    /\ signed' = <<>>
    /\ UNCHANGED now

\* A webhook arrives with one byte of its signature header changed.
VerifyTamperedWebhook ==
    /\ call = Idle
    /\ \E w \in TamperedWebhooks :
        LET sent == Sent(w)
            sig == sent.headers["signature"]
        IN  \E pos \in 1..Len(sig) : \E byte \in TamperBytes(sig[pos]) :
            LET request == [sent EXCEPT !.headers["signature"][pos] = byte]
                resolved == Ok(SecretOf(w.auth))
            IN  /\ call' = [op |-> "verify_webhook_source", request |-> request,
                            merchant_id |-> w.merchant_id, resolved |-> resolved,
                            webhook |-> w, fault |-> "signature_byte_changed"]
                /\ ret' = verify_webhook_source(request, w.merchant_id, resolved)
    /\ signed' = <<>>
    /\ UNCHANGED now

BuildErrorResponse ==
    /\ call = Idle
    /\ \E res \in ErrorResponses :
        /\ call' = [op |-> "build_error_response", res |-> res]
        /\ ret' = build_error_response(res)
    /\ signed' = <<>>
    /\ UNCHANGED now

GetWebhookObjectReferenceId ==
    /\ call = Idle
    /\ \E request \in IncomingWebhookRequestDetails :
        /\ call' = [op |-> "get_webhook_object_reference_id", request |-> request]
        /\ ret' = get_webhook_object_reference_id(request)
    /\ signed' = <<>>
    /\ UNCHANGED now

GetWebhookEventType ==
    /\ call = Idle
    /\ \E request \in IncomingWebhookRequestDetails :
        /\ call' = [op |-> "get_webhook_event_type", request |-> request]
        /\ ret' = get_webhook_event_type(request)
    /\ signed' = <<>>
    /\ UNCHANGED now

GetDisputeDetails ==
    /\ call = Idle
    /\ \E request \in IncomingWebhookRequestDetails :
        /\ call' = [op |-> "get_dispute_details", request |-> request]
        /\ ret' = get_dispute_details(request)
    /\ signed' = <<>>
    /\ UNCHANGED now

Next ==
    \/ Tick
    \/ Return
    \/ BuildRequestAuthorize
    \/ BuildRequestVoid
    \/ BuildRequestPSync
    \/ BuildRequestCapture
    \/ BuildRequestExecute
    \/ BuildRequestRSync
    \/ BuildRequestSetupMandate
    \/ HandleResponse
    \/ ValidateCaptureMethod
    \/ VerifyWebhookSource
    \/ VerifyTamperedWebhook
    \/ BuildErrorResponse
    \/ GetWebhookObjectReferenceId
    \/ GetWebhookEventType
    \/ GetDisputeDetails

Spec == Init /\ [][Next]_vars

(***************************************************************************)
(* generate_signature on its own: a caller invokes it several times, with  *)
(* the inputs of an Authorize the first time and afterwards with those of  *)
(* the invocation before, the same or changed in one component; the clock  *)
(* advances in between.  `signed` records the invocations made so far.     *)
(***************************************************************************)
MaxCalls == 2        \* invocations of generate_signature in one behaviour

SigningInputs ==
    [http_method : {S_post, S_get},
     url_path : {S_v1_payments, S_v1_refunds},
     body : {<<>>, get_inner_value(Json([amount |-> 500]))},
     timestamp : {ClockStart, ClockStart + 1},
     salt : sample_string(SaltLen),
     access_key : {AK1, AK2},
     secret_key : {SK1, SK2}]

\* The inputs of the first invocation: those of an Authorize request.
FirstSigningInputs ==
    { i \in SigningInputs :
        /\ i.http_method = S_post /\ i.url_path = S_v1_payments
        /\ <<i.access_key, i.secret_key>> \in {<<AK1, SK1>>, <<AK2, SK2>>} }

SigningComponents ==
    {"http_method", "url_path", "body", "timestamp", "salt", "access_key", "secret_key"}

\* The inputs of an invocation already made.
InputsOf(c) ==
    [http_method |-> c.http_method, url_path |-> c.url_path, body |-> c.body,
     timestamp |-> c.timestamp, salt |-> c.salt,
     access_key |-> c.auth.access_key, secret_key |-> c.auth.secret_key]

\* The inputs that differ from `i` in at most one component.
Variations(i) ==
    { j \in SigningInputs : Cardinality({ f \in SigningComponents : j[f] # i[f] }) <= 1 }

GenerateSignature ==
    /\ Len(signed) < MaxCalls
    /\ \E i \in (IF signed = <<>> THEN FirstSigningInputs
                                  ELSE Variations(InputsOf(signed[Len(signed)]))) :
        LET auth == [access_key |-> i.access_key, secret_key |-> i.secret_key]
            c == SignedCall(auth, i.http_method, i.url_path, i.body, i.timestamp, i.salt)
        IN  /\ signed' = Append(signed, c)
            /\ call' = [op |-> "generate_signature", at |-> now,
                        previous_at |-> IF signed = <<>> THEN now ELSE call.at]
            /\ ret' = c.ret
    /\ UNCHANGED now

ClockAdvances ==
    /\ now < ClockStart + MaxTicks
    /\ now' = now + 1
    /\ UNCHANGED <<call, ret, signed>>

SigningNext ==
    \/ GenerateSignature
    \/ ClockAdvances

SigningSpec == Init /\ [][SigningNext]_vars

(***************************************************************************)
(* Invocations under way at the same time.  Here `call`, `ret` and         *)
(* `signed` hold, for each invocation, what the sequential model holds for *)
(* the single one.  An invocation begins by taking its inputs (for a       *)
(* build_request, the clock's reading and the salt drawn, lines 229-230)   *)
(* and completes by returning its result; steps of other invocations and   *)
(* of the clock come in between.                                           *)
(***************************************************************************)
Invocations == {"a", "b"}

\* The webhook the provider sends at the present time, in this setting.
ConcurrentWebhooks ==
    { w \in TamperedWebhooks :
        /\ w.auth = [access_key |-> AK1, secret_key |-> SK1]
        /\ w.body = CHOOSE b \in WebhookBodies : TRUE }

\* What an invocation may be given when it begins.
ConcurrentCalls ==
    LET connectors == CHOOSE c \in ConnectorsSettings : TRUE
        tid == CHOOSE t \in TransactionIds : TRUE
        bodykey == [kind |-> "BodyKey", api_key |-> AK1, key1 |-> SK1]
    IN  { [op |-> "build_request", flow |-> "Capture",
           req |-> RouterData(auth, [connector_transaction_id |-> tid,
                                     minor_amount_to_capture |-> 500, currency |-> USD]),
           connectors |-> connectors, timestamp |-> now_unix_timestamp, salt |-> salt] :
             auth \in {bodykey, [kind |-> "HeaderKey", api_key |-> AK1]},
             salt \in sample_string(SaltLen) }
        \cup { [op |-> "build_request", flow |-> "PSync",
                req |-> RouterData(bodykey, [connector_transaction_id |-> rid]),
                connectors |-> connectors, timestamp |-> now_unix_timestamp, salt |-> salt] :
                  rid \in { [kind |-> "NoResponseId"] },
                  salt \in { CHOOSE x \in sample_string(SaltLen) : TRUE } }
        \cup { [op |-> "verify_webhook_source", request |-> Arrived(w, fault),
                merchant_id |-> w.merchant_id, resolved |-> Resolved(w, fault)] :
                  w \in ConcurrentWebhooks, fault \in {"none", "body_changed"} }
        \cup { [op |-> "handle_response", flow |-> "Execute",
                data |-> RouterData(bodykey, [flow |-> "Execute"]), res |-> res] :
                  res \in { r \in Responses : r.status_code = 200
                                              /\ r.response.schema = "RefundResponse"
                                              /\ r.response.convertible } }

\* The operation an invocation runs, on the inputs it took.
Outcome(c) ==
    CASE c.op = "build_request" /\ c.flow = "Capture" ->
             build_request_Capture(c.req, c.connectors, c.timestamp, c.salt)
      [] c.op = "build_request" /\ c.flow = "PSync" ->
             build_request_PSync(c.req, c.connectors, c.timestamp, c.salt)
      [] c.op = "verify_webhook_source" ->
             Built(verify_webhook_source(c.request, c.merchant_id, c.resolved), <<>>)
      [] c.op = "handle_response" ->
             Built(handle_response(c.flow, c.data, c.res), <<>>)

ConcurrentInit ==
    /\ now = ClockStart
    /\ call = [i \in Invocations |-> Idle]
    /\ ret = [i \in Invocations |-> NoResult]
    /\ signed = [i \in Invocations |-> <<>>]

Begin(i) ==
    /\ call[i] = Idle
    /\ \E c \in ConcurrentCalls : call' = [call EXCEPT ![i] = c]
    /\ UNCHANGED <<now, ret, signed>>

Complete(i) ==
    /\ call[i] # Idle
    /\ ret[i] = NoResult
    /\ LET outcome == Outcome(call[i])
       IN  /\ ret' = [ret EXCEPT ![i] = outcome.res]
           /\ signed' = [signed EXCEPT ![i] = outcome.signed]
    /\ UNCHANGED <<now, call>>

ConcurrentNext ==
    \/ ClockAdvances
    \/ \E i \in Invocations : Begin(i)
    \/ \E i \in Invocations : Complete(i)

ConcurrentSpec == ConcurrentInit /\ [][ConcurrentNext]_vars

(***************************************************************************)
(* Properties.                                                             *)
(***************************************************************************)
IsVerify == call.op = "verify_webhook_source"
IsBuild(flows) == call.op = "build_request" /\ call.flow \in flows
WebhookHeaders == {"signature", "salt", "timestamp", "host"}
S_rapyd == <<114, 97, 112, 121, 100>>                          \* "rapyd"

\* The positions at which two byte strings of equal length differ.
Differences(a, b) == { i \in 1..Len(a) : a[i] # b[i] }

\* The request carries the inputs the provider signed: host, salt, timestamp,
\* body, merchant id and the merchant's keys.
SameInputs ==
    LET w == call.webhook
        h == call.request.headers
    IN  /\ WebhookHeaders \subseteq DOMAIN h
        /\ h["host"] = w.host
        /\ h["salt"] = w.salt
        /\ h["timestamp"] = to_string(w.timestamp)
        /\ call.request.body = w.body
        /\ call.merchant_id = w.merchant_id
        /\ call.resolved = Ok(SecretOf(w.auth))

\* The signature generate_signature gives for the webhook string-to-sign.
ProviderSignature ==
    LET w == call.webhook
    IN  generate_signature(w.auth, <<>>,
            Concat(<<S_https, w.host, S_webhooks, w.merchant_id, S_slash, S_rapyd>>),
            w.body, w.timestamp, w.salt).val

ReturnedTrue == ret.ok /\ ret.val = TRUE

\* C1: a webhook whose signature header holds the signature generate_signature
\* gives for the webhook URL, salt, timestamp, keys and body is verified (true)
\* with the same inputs; with any single byte of that signature changed,
\* verification does not return true.
C1_WebhookRoundTrip ==
    (IsVerify /\ SameInputs) =>
        \A sig \in {call.request.headers["signature"]}, genuine \in {ProviderSignature} :
            /\ sig = genuine => ReturnedTrue
            /\ (Len(sig) = Len(genuine) /\ Cardinality(Differences(sig, genuine)) = 1)
                => ~ReturnedTrue

\* C1 witness: the provider's webhook, with a two-byte UTF-8 character in its
\* body, has been verified as genuine.
C1_Witness ==
    /\ IsVerify /\ SameInputs
    /\ call.request.headers["signature"] = ProviderSignature
    /\ call.request.body = <<34, 195, 169, 34>>
    /\ ReturnedTrue

\* Every step before the comparison succeeds on the request and the resolved
\* secret.
StepsSucceed ==
    /\ call.resolved.ok
    /\ WebhookHeaders \subseteq DOMAIN call.request.headers
    /\ base64_decode(call.request.headers["signature"]).ok
    /\ call.resolved.val.secret.form = "RapydAuthType"
    /\ Utf8Valid(call.request.body)

\* The hex HMAC of the string-to-sign rebuilt from the request.
ExpectedHexHmac ==
    LET h == call.request.headers
        k == call.resolved.val.secret
    IN  hex_encode(hmac_sign(k.secret_key,
            Concat(<<S_https, h["host"], S_webhooks, call.merchant_id, S_slash, S_rapyd,
                     h["salt"], h["timestamp"], k.access_key, k.secret_key,
                     call.request.body>>)))

\* C2: verify_webhook_source returns true exactly when every step succeeds and
\* the hex HMAC-SHA256 of the rebuilt string-to-sign equals the base64-decoded
\* signature header; when a step fails the result is the error
\* WebhookSourceVerificationFailed, and no other error is ever returned.
C2_FailsClosed ==
    IsVerify =>
        /\ ReturnedTrue <=>
              (StepsSucceed
                 /\ ExpectedHexHmac = base64_decode(call.request.headers["signature"]).val)
        /\ ~StepsSucceed => (~ret.ok /\ ret.err = "WebhookSourceVerificationFailed")
        /\ ~ret.ok => ret.err = "WebhookSourceVerificationFailed"

\* C2 witness: the merchant secret could not be resolved and the verification
\* ended in the error.
C2_Witness ==
    /\ IsVerify
    /\ ~call.resolved.ok
    /\ ~ret.ok /\ ret.err = "WebhookSourceVerificationFailed"

\* C3: a webhook whose signature header differs from the provider's signature
\* in its last byte only (same body, salt, timestamp and host) is rejected with
\* the error WebhookSourceVerificationFailed.
C3_TamperedLastByteRejected ==
    (IsVerify /\ SameInputs) =>
        \A sig \in {call.request.headers["signature"]}, genuine \in {ProviderSignature} :
            (Len(sig) = Len(genuine) /\ Differences(sig, genuine) = {Len(sig)})
                => (~ret.ok /\ ret.err = "WebhookSourceVerificationFailed")

\* C3 witness: the last byte of the provider's signature was replaced by a
\* symbol of the alphabet and the webhook was rejected with the error.
C3_Witness ==
    /\ IsVerify /\ SameInputs
    /\ \E sig \in {call.request.headers["signature"]}, genuine \in {ProviderSignature} :
           /\ Len(sig) = Len(genuine)
           /\ Differences(sig, genuine) = {Len(sig)}
           /\ SymbolValue(sig[Len(sig)]) >= 0
    /\ ~ret.ok /\ ret.err = "WebhookSourceVerificationFailed"

SigningFlows == {"Authorize", "Capture", "Void", "PSync", "Execute"}
BuiltRequest == ret.ok /\ ret.val # None

Range(seq) == { seq[i] : i \in 1..Len(seq) }

\* Method as it goes on the wire.
MethodName(m) ==
    CASE m = "Post" -> <<80, 79, 83, 84>>                      \* "POST"
      [] m = "Get" -> <<71, 69, 84>>                           \* "GET"
      [] m = "Delete" -> <<68, 69, 76, 69, 84, 69>>            \* "DELETE"

to_ascii_lowercase(bytes) ==
    [i \in 1..Len(bytes) |-> IF bytes[i] >= 65 /\ bytes[i] <= 90 THEN bytes[i] + 32 ELSE bytes[i]]

\* C4: in every request built by Authorize, Capture, Void, Sync and Refund
\* Execute, the one signature made is over what is sent: the signed method is
\* the lower-case name of the request's method, the request's URL is base_url
\* followed by the signed path, the signed body is the request's body in its
\* wire form (empty when the request has none), and that signature is the
\* request's signature header.
C4_SignedWhatIsSent ==
    (IsBuild(SigningFlows) /\ BuiltRequest) =>
        /\ Len(signed) = 1
        /\ \A c \in Range(signed), r \in Range(ret.val) :
            /\ c.http_method = to_ascii_lowercase(MethodName(r.method))
            /\ r.url = call.connectors.rapyd.base_url \o c.url_path
            /\ c.body = (IF r.body = None THEN <<>> ELSE get_inner_value(r.body[1]))
            /\ c.ret.ok
            /\ <<"signature", c.ret.val>> \in Range(r.headers)

\* C4 witness: a Capture of 1000 minor units was built, with a body.
C4_Witness ==
    /\ IsBuild({"Capture"}) /\ BuiltRequest
    /\ call.req.request.minor_amount_to_capture = 1000
    /\ ret.val[1].body # None

\* C5: every request built by Authorize, Capture, Void, Sync, Refund Execute
\* and Refund Sync carries the headers access_key, salt, timestamp and
\* signature, the signature being what generate_signature returned for the
\* salt and timestamp the request carries.
C5_SigningHeadersCarried ==
    (IsBuild(ImplementedFlows) /\ BuiltRequest) =>
        \A r \in Range(ret.val) :
            /\ \A k \in {"access_key", "salt", "timestamp", "signature"} :
                   \E h \in Range(r.headers) : h[1] = k
            /\ \E c \in Range(signed) :
                   /\ c.ret.ok
                   /\ <<"signature", c.ret.val>> \in Range(r.headers)
                   /\ <<"salt", c.salt>> \in Range(r.headers)
                   /\ <<"timestamp", to_string(c.timestamp)>> \in Range(r.headers)

\* C6: every request with a body (Authorize, Capture, Refund Execute) carries
\* Content-Type: application/json among the headers build_request set.
C6_BodiedRequestsCarryContentType ==
    (IsBuild({"Authorize", "Capture", "Execute"}) /\ BuiltRequest) =>
        \A r \in Range(ret.val) :
            r.body # None => <<"Content-Type", S_application_json>> \in Range(r.headers)

\* The response type each flow's handle_response parses the body into.
ResponseSchema(flow) ==
    IF flow \in {"Execute", "RSync"} THEN "RefundResponse" ELSE "RapydPaymentsResponse"

\* C7: on every flow, handle_response given a body that does not parse into
\* the flow's response type returns the error ResponseDeserializationFailed.
C7_MalformedBodyIsDeserializationFailure ==
    (call.op = "handle_response" /\ call.res.response.schema # ResponseSchema(call.flow)) =>
        (~ret.ok /\ ret.err = "ResponseDeserializationFailed")

UnresolvableId ==
    IsBuild({"PSync"}) /\ call.req.request.connector_transaction_id.kind # "ConnectorTransactionId"

\* C8 as stated: the Sync flow with an absent or unresolvable connector
\* transaction id returns the error MissingConnectorTransactionID and no other.
C8_SyncMissingIdOnly ==
    UnresolvableId => (~ret.ok /\ ret.err = "MissingConnectorTransactionID")

\* C8 as amended: the Sync flow with an absent or unresolvable connector
\* transaction id returns no request; the error is MissingConnectorTransactionID
\* when the credentials decode, and the credential-decoding error, which comes
\* first, when they do not.
C8_SyncMissingId ==
    UnresolvableId =>
        /\ ~ret.ok
        /\ IF RapydAuthType_try_from(call.req.connector_auth_type).ok
               THEN ret.err = "MissingConnectorTransactionID"
               ELSE ret = RapydAuthType_try_from(call.req.connector_auth_type)

\* C8 witness: a Sync without a response id, with credentials that decode,
\* ended in MissingConnectorTransactionID.
C8_Witness ==
    /\ UnresolvableId
    /\ call.req.request.connector_transaction_id.kind = "NoResponseId"
    /\ call.req.connector_auth_type.kind = "BodyKey"
    /\ ~ret.ok /\ ret.err = "MissingConnectorTransactionID"

\* C9: validate_capture_method accepts Automatic, Manual and an absent method,
\* and rejects ManualMultiple and Scheduled with a not-supported error naming
\* the connector "rapyd" and the method; the payment method type plays no part.
C9_CaptureMethodValidation ==
    call.op = "validate_capture_method" =>
        IF call.capture_method \in {None, Some("Automatic"), Some("Manual")}
        THEN ret.ok
        ELSE /\ call.capture_method \in {Some("ManualMultiple"), Some("Scheduled")}
             /\ ~ret.ok
             /\ ret.err = [error |-> "NotSupported", connector |-> S_rapyd,
                           message |-> call.capture_method[1]]

\* C9 witness: Scheduled was rejected for a given payment method type.
C9_Witness ==
    /\ call.op = "validate_capture_method"
    /\ call.capture_method = Some("Scheduled")
    /\ call.pmt # None
    /\ ~ret.ok

\* C10: the Setup Mandate flow's build_request fails with NotImplemented for
\* every input and yields no request.
C10_SetupMandateNotImplemented ==
    IsBuild({"SetupMandate"}) => (~ret.ok /\ ret.err = "NotImplemented" /\ signed = <<>>)

\* C10 witness: a Setup Mandate request was asked for, with credentials that
\* would decode, and refused.
C10_Witness ==
    /\ IsBuild({"SetupMandate"})
    /\ call.req.connector_auth_type.kind = "BodyKey"
    /\ ~ret.ok

\* C11: build_error_response on a body that parses as the provider's response
\* returns, as a value, an error response with the HTTP status as status_code,
\* the provider's error code as code, the provider's status text (empty when
\* absent) as message, the provider's message as reason, and neither an
\* attempt status nor a connector transaction id.
C11_CanonicalError ==
    (call.op = "build_error_response" /\ call.res.response.schema = "RapydPaymentsResponse") =>
        /\ ret.ok
        /\ \A st \in {call.res.response.status} :
            /\ ret.val.status_code = call.res.status_code
            /\ ret.val.code = st.error_code
            /\ ret.val.message = (IF st.status = None THEN "" ELSE st.status[1])
            /\ ret.val.reason = st.message
            /\ ret.val.attempt_status = None
            /\ ret.val.connector_transaction_id = None

\* C11 witness: an error body with a code and a message but no status text,
\* under HTTP 400, came back as an error response with an empty message.
C11_Witness ==
    /\ call.op = "build_error_response"
    /\ call.res.status_code = 400
    /\ call.res.response.schema = "RapydPaymentsResponse"
    /\ call.res.response.status.error_code = "ERROR_PAYMENT_DECLINED"
    /\ call.res.response.status.status = None
    /\ call.res.response.status.message # None
    /\ ret.ok /\ ret.val.message = ""

Parses == call.request.body.schema = "RapydIncomingWebhook"

\* C12: get_webhook_event_type returns, as a normal result: PaymentIntentSuccess
\* for payment completed or captured; PaymentIntentFailure for payment failed;
\* RefundFailure for refund failed or rejected; RefundSuccess for refund
\* completed; DisputeOpened for dispute created; for dispute updated the event
\* derived from the status of the dispute in the payload, or EventNotSupported
\* when the payload is not a dispute; EventNotSupported for an unrecognized
\* event.
C12_EventMapping ==
    (call.op = "get_webhook_event_type" /\ Parses) =>
        /\ ret.ok
        /\ \A t \in {call.request.body.webhook_type}, d \in {call.request.body.data} :
            /\ t \in {"PaymentCompleted", "PaymentCaptured"} => ret.val = "PaymentIntentSuccess"
            /\ t = "PaymentFailed" => ret.val = "PaymentIntentFailure"
            /\ t \in {"PaymentRefundFailed", "PaymentRefundRejected"} => ret.val = "RefundFailure"
            /\ t = "RefundCompleted" => ret.val = "RefundSuccess"
            /\ t = "PaymentDisputeCreated" => ret.val = "DisputeOpened"
            /\ (t = "PaymentDisputeUpdated" /\ d.kind = "Dispute") =>
                   ret.val = IncomingWebhookEvent_from(d.status)
            /\ (t = "PaymentDisputeUpdated" /\ d.kind # "Dispute") => ret.val = "EventNotSupported"
            /\ t = "Unknown" => ret.val = "EventNotSupported"

\* C12 witness: a dispute-updated webhook whose dispute is won was mapped to
\* the event of a won dispute.
C12_Witness ==
    /\ call.op = "get_webhook_event_type" /\ Parses
    /\ call.request.body.webhook_type = "PaymentDisputeUpdated"
    /\ call.request.body.data.kind = "Dispute"
    /\ call.request.body.data.status = "Win"
    /\ ret.ok /\ ret.val = "DisputeWon"

\* C13: get_webhook_object_reference_id returns, for a Payment payload, a
\* connector transaction id equal to the payment's id; for a Refund payload, a
\* connector refund id equal to the refund's id; for a Dispute payload, a
\* connector transaction id equal to the dispute's original transaction id.
C13_ReferenceId ==
    (call.op = "get_webhook_object_reference_id" /\ Parses) =>
        /\ ret.ok
        /\ \A d \in {call.request.body.data} :
            /\ d.kind = "Payment" =>
                   ret.val = [kind |-> "PaymentId", id_type |-> "ConnectorTransactionId", id |-> d.id]
            /\ d.kind = "Refund" =>
                   ret.val = [kind |-> "RefundId", id_type |-> "ConnectorRefundId", id |-> d.id]
            /\ d.kind = "Dispute" =>
                   ret.val = [kind |-> "PaymentId", id_type |-> "ConnectorTransactionId",
                              id |-> d.original_transaction_id]

\* C13 witness: a Dispute payload was referred to by its original transaction,
\* which is not its token.
C13_Witness ==
    /\ call.op = "get_webhook_object_reference_id" /\ Parses
    /\ call.request.body.data.kind = "Dispute"
    /\ ret.ok
    /\ ret.val.id = "payment_2"
    /\ ret.val.id # call.request.body.data.token

\* C20: get_dispute_details returns a dispute payload only for a Dispute
\* payload, with the dispute's token as connector_dispute_id and the stage
\* Dispute; for a Payment or Refund payload it fails with
\* WebhookBodyDecodingFailed, and for a body that does not parse as a webhook
\* with WebhookEventTypeNotFound.
C20_DisputeDetails ==
    call.op = "get_dispute_details" =>
        IF ~Parses THEN ~ret.ok /\ ret.err = "WebhookEventTypeNotFound"
        ELSE IF call.request.body.data.kind # "Dispute"
             THEN ~ret.ok /\ ret.err = "WebhookBodyDecodingFailed"
        ELSE /\ ret.ok
             /\ ret.val.connector_dispute_id = call.request.body.data.token
             /\ ret.val.dispute_stage = "Dispute"

\* C20 witness: a Refund payload was refused with WebhookBodyDecodingFailed.
C20_Witness ==
    /\ call.op = "get_dispute_details" /\ Parses
    /\ call.request.body.data.kind = "Refund"
    /\ ~ret.ok /\ ret.err = "WebhookBodyDecodingFailed"

\* The components in which two invocations of generate_signature differ.
ChangedComponents(c, d) ==
    { f \in SigningComponents : InputsOf(c)[f] # InputsOf(d)[f] }

StringToSignOf(c) ==
    string_to_sign(c.auth, c.http_method, c.url_path, c.body, c.timestamp, c.salt)
TagOf(c) == hmac_sign(c.auth.secret_key, StringToSignOf(c))

\* C15: two invocations of generate_signature that differ in exactly one of
\* method, path, salt, timestamp, body, access key and secret key sign
\* different strings, and return different signatures whenever the HMAC tags
\* of the two differ.
C15_SingleChangeChangesSignature ==
    \A i, j \in 1..Len(signed) :
        Cardinality(ChangedComponents(signed[i], signed[j])) = 1 =>
            \A s1 \in {StringToSignOf(signed[i])}, s2 \in {StringToSignOf(signed[j])} :
                /\ s1 # s2
                /\ hmac_sign(signed[i].auth.secret_key, s1) # hmac_sign(signed[j].auth.secret_key, s2)
                       => signed[i].ret # signed[j].ret

\* C15 witness: two invocations differing in the salt alone returned different
\* signatures.
C15_Witness ==
    /\ Len(signed) = 2
    /\ ChangedComponents(signed[1], signed[2]) = {"salt"}
    /\ TagOf(signed[1]) # TagOf(signed[2])
    /\ signed[1].ret # signed[2].ret

SigningKeys == {"access_key", "salt", "timestamp", "signature"}

\* The layer a header belongs to, by its name: 1 for the default headers, 2
\* for the flow's own, 3 for the signing headers.
Layer(name) ==
    IF name \in SigningKeys THEN 3
    ELSE IF name \in { h[1] : h \in Range(DefaultHeaders) } THEN 1 ELSE 2

\* The value a header name ends up with when a later header of the same name
\* wins.
Effective(hdrs, name) ==
    hdrs[CHOOSE i \in 1..Len(hdrs) :
            /\ hdrs[i][1] = name
            /\ \A j \in (i + 1)..Len(hdrs) : hdrs[j][1] # name][2]

\* C16: in every request built by an implemented flow the headers come in the
\* order default headers, flow-specific headers, signing headers; with a later
\* header winning over an earlier one of the same name, each signing header
\* keeps the value signed and each flow-specific header the value the flow
\* gave it.
C16_HeaderPrecedence ==
    (IsBuild(ImplementedFlows) /\ BuiltRequest) =>
        \A hdrs \in {ret.val[1].headers} :
            /\ \A i, j \in 1..Len(hdrs) : i < j => Layer(hdrs[i][1]) <= Layer(hdrs[j][1])
            /\ \A c \in Range(signed) :
                /\ Effective(hdrs, "signature") = c.ret.val
                /\ Effective(hdrs, "salt") = c.salt
                /\ Effective(hdrs, "timestamp") = to_string(c.timestamp)
                /\ Effective(hdrs, "access_key") = c.auth.access_key
            /\ \A i \in 1..Len(hdrs) :
                   Layer(hdrs[i][1]) = 2 => Effective(hdrs, hdrs[i][1]) = hdrs[i][2]

\* C16 witness: a Void request was built with headers of all three layers.
C16_Witness ==
    /\ IsBuild({"Void"}) /\ BuiltRequest
    /\ { Layer(h[1]) : h \in Range(ret.val[1].headers) } = {1, 2, 3}

DecodedCredentials == RapydAuthType_try_from(call.req.connector_auth_type)

Alphanumeric(c) ==
    \/ c >= 48 /\ c <= 57
    \/ c >= 65 /\ c <= 90
    \/ c >= 97 /\ c <= 122

Done(i) == call[i] # Idle /\ ret[i] # NoResult

\* Invocations given the same inputs have the same result.
SameInputsSameResult ==
    \A i, j \in Invocations :
        (Done(i) /\ Done(j) /\ call[i] = call[j]) =>
            (ret[i] = ret[j] /\ signed[i] = signed[j])

\* On the inputs an invocation took its operation has a result, at whatever
\* moment it is taken, and the result the invocation gave is that one.
OwnInputsOnly ==
    \A i \in Invocations :
        call[i] # Idle =>
            \A outcome \in {Outcome(call[i])} :
                /\ outcome.res.ok \in BOOLEAN
                /\ Done(i) => (ret[i] = outcome.res /\ signed[i] = outcome.signed)

\* A result, once given, stays, with the inputs it was given for.
OneResult ==
    \A i \in Invocations : Done(i) => (ret'[i] = ret[i] /\ call'[i] = call[i])

\* A step that changes what one invocation holds leaves the others' alone.
NoInterference ==
    \A i \in Invocations :
        (call'[i] # call[i] \/ ret'[i] # ret[i] \/ signed'[i] # signed[i]) =>
            \A j \in Invocations \ {i} :
                call'[j] = call[j] /\ ret'[j] = ret[j] /\ signed'[j] = signed[j]

=============================================================================
